---- MODULE Spec2Model ----
(***************************************************************************)
(* Model of crab-bucket's arena-based splay tree (src/src/splay.rs):       *)
(* Splay::get / Splay::set with the recursive visit / rotate / splay       *)
(* engine, and the SplayIter in-order iterator.                            *)
(*                                                                         *)
(* Arena indices are 0-based as in the source: `nodes` is a function with  *)
(* domain 0..len-1.  Option<T> is modelled as a sequence of length <= 1.   *)
(***************************************************************************)
EXTENDS Integers, Sequences, FiniteSets, TLC

\* ---------------------------------------------------------------- bounds
MaxKey == 4
\* the arena holds at most MaxNodes nodes: set of a new key is not called on
\* a full arena
MaxNodes == 4

Keys == 1..MaxKey
Values == {1, 2}

\* ------------------------------------------------------------ Option<T>
None == <<>>
Some(x) == <<x>>

\* IDX_NONE = OptionIdx(Idx::MAX); the largest integer of the model's
\* integer width stands for usize::MAX.
IDX_NONE == 2147483647

VARIABLES
    root,       \* Splay.root : OptionIdx
    nodes,      \* Splay.nodes : Vec<Node>, a function 0..len-1 -> Node
    panicked,   \* TRUE once an unwrap / unreachable! / index check aborted
    map,        \* reference map fed the same set operations (HashMap in test_quickcheck)
    last,       \* the most recent API call, its arguments and its outcome
    itState,    \* "none" | "active" | "ended" : lifetime of the SplayIter
    itPath,     \* SplayIter.path : Vec<(Idx, bool)>
    itOut       \* the items next() has returned so far

vars == <<root, nodes, panicked, map, last, itState, itPath, itOut>>

\* ------------------------------------------------------------- the arena
NodesLen(ns) == Cardinality(DOMAIN ns)

EmptyNodes == [i \in {} |-> 0]

\* some arena slot holds key k
HasKey(ns, k) == \E i \in DOMAIN ns : ns[i].key = k

\* Vec::push
Push(ns, n) ==
    LET len == NodesLen(ns)
    IN  [i \in 0..len |-> IF i < len THEN ns[i] ELSE n]

\* swap as it would be if slot a were overwritten with slot b's contents and
\* slot b left as it was
SwapNodes_copy(ns, a, b) ==
    [i \in DOMAIN ns |-> IF i = a THEN ns[b] ELSE ns[i]]

\* Vec::swap
SwapNodes(ns, a, b) ==
    [i \in DOMAIN ns |-> IF i = a THEN ns[b] ELSE IF i = b THEN ns[a] ELSE ns[i]]

\* --------------------------------------------------------------- Dir, Path
Dirs == {"Left", "Right"}

flip(dir) == IF dir = "Right" THEN "Left" ELSE "Right"

\* Path::Empty = <<>>, Path::One(d) = <<d>>, Path::Two(d1, d2) = <<d1, d2>>
PathEmpty == <<>>

\* extend as it would be if a one-step path were replaced instead of grown
\* into a two-step path
extend_no_two(path, dir) == <<dir>>

extend(path, dir) ==
    IF Len(path) = 0 THEN <<dir>>
    ELSE <<dir, path[1]>>

\* --------------------------------------------------------------- OrCreate
Lookup(k) == [kind |-> "Lookup", key |-> k, value |-> None]
Create(k, v) == [kind |-> "Create", key |-> k, value |-> Some(v)]

\* OrCreate::value
CreateValue(create) == IF create.kind = "Lookup" THEN None ELSE create.value

\* ------------------------------------------------------- child / set_child
child(ns, idx, dir) ==
    IF dir = "Left" THEN ns[idx].left ELSE ns[idx].right

set_child(ns, idx, dir, to) ==
    IF dir = "Left" THEN [ns EXCEPT ![idx].left = to]
    ELSE [ns EXCEPT ![idx].right = to]

\* The state threaded through one get / set call:
\*   nodes, root  the tree being modified
\*   path         the `&mut Path` shared by the recursion
\*   value        the Option<V> handed back by visit
\*   panic        an unwrap / unreachable! / bounds check has aborted the call
\*   steps        two-rotation splay steps performed so far
\*   finish       finishing single rotations performed so far
\*   rots         rotate calls performed so far
\*   allocs       new_node calls performed so far
\*   log          the splay_step ("step") and splay_finish ("finish") rotations
\*                in the order they were performed
\*   ext2         Path::extend has been called on a Path::Two
Call(ns, r) ==
    [nodes |-> ns, root |-> r, path |-> PathEmpty, value |-> None,
     panic |-> FALSE, steps |-> 0, finish |-> 0, rots |-> 0, allocs |-> 0,
     log |-> <<>>, ext2 |-> FALSE]

\* Splay::new_node: the index of the pushed node is the old length
new_node(t, key, value) ==
    [t EXCEPT !.nodes = Push(t.nodes,
                             [key |-> key, value |-> value,
                              left |-> IDX_NONE, right |-> IDX_NONE]),
              !.allocs = @ + 1]

\* rotate as it would be if the two slots were not swapped after relinking
rotate_no_swap(t, upper, dir) ==
    IF t.panic THEN t
    ELSE IF upper \notin DOMAIN t.nodes THEN [t EXCEPT !.panic = TRUE]
    ELSE LET lower == child(t.nodes, upper, dir) IN
         IF lower = IDX_NONE \/ lower \notin DOMAIN t.nodes
         THEN [t EXCEPT !.panic = TRUE]
         ELSE LET n1 == set_child(t.nodes, upper, dir, child(t.nodes, lower, flip(dir)))
                  n2 == set_child(n1, lower, flip(dir), lower)
              IN  [t EXCEPT !.nodes = n2, !.rots = @ + 1]

\* rotate as it would be if upper took over lower's `dir` child instead of
\* its flip(dir) child
rotate_wrong_grandchild(t, upper, dir) ==
    IF t.panic THEN t
    ELSE IF upper \notin DOMAIN t.nodes THEN [t EXCEPT !.panic = TRUE]
    ELSE LET lower == child(t.nodes, upper, dir) IN
         IF lower = IDX_NONE \/ lower \notin DOMAIN t.nodes
         THEN [t EXCEPT !.panic = TRUE]
         ELSE LET n1 == set_child(t.nodes, upper, dir, child(t.nodes, lower, dir))
                  n2 == set_child(n1, lower, flip(dir), lower)
                  n3 == SwapNodes(n2, upper, lower)
              IN  [t EXCEPT !.nodes = n3, !.rots = @ + 1]

\* Splay::rotate
rotate(t, upper, dir) ==
    IF t.panic THEN t
    ELSE IF upper \notin DOMAIN t.nodes THEN [t EXCEPT !.panic = TRUE]
    ELSE LET lower == child(t.nodes, upper, dir) IN
         IF lower = IDX_NONE \/ lower \notin DOMAIN t.nodes
         THEN [t EXCEPT !.panic = TRUE]
         ELSE LET n1 == set_child(t.nodes, upper, dir, child(t.nodes, lower, flip(dir)))
                  n2 == set_child(n1, lower, flip(dir), lower)
                  n3 == SwapNodes(n2, upper, lower)
              IN  [t EXCEPT !.nodes = n3, !.rots = @ + 1]

\* splay_step as it would be if a two-step path only rotated the upper edge
splay_step_single(t, idx) ==
    IF t.panic \/ Len(t.path) < 2 THEN t
    ELSE LET r2 == rotate(t, idx, t.path[1])
         IN  IF r2.panic THEN r2
             ELSE [r2 EXCEPT !.path = PathEmpty, !.steps = @ + 1]

\* splay_step as it would be if the path were not reset to Path::Empty after
\* the two rotations
splay_step_keep_path(t, idx) ==
    IF t.panic \/ Len(t.path) < 2 THEN t
    ELSE LET dir1 == t.path[1]
             dir2 == t.path[2]
             next_node == child(t.nodes, idx, dir1)
         IN  IF next_node = IDX_NONE THEN [t EXCEPT !.panic = TRUE]
             ELSE LET r1 == rotate(t, next_node, dir2)
                      r2 == rotate(r1, idx, dir1)
                  IN  IF r2.panic THEN r2
                      ELSE [r2 EXCEPT !.steps = @ + 1,
                                      !.log = Append(@, "step")]

\* Splay::splay_step
splay_step(t, idx) ==
    IF t.panic \/ Len(t.path) < 2 THEN t
    ELSE LET dir1 == t.path[1]
             dir2 == t.path[2]
             next_node == child(t.nodes, idx, dir1)
         IN  IF next_node = IDX_NONE THEN [t EXCEPT !.panic = TRUE]
             ELSE LET r1 == rotate(t, next_node, dir2)
                      r2 == rotate(r1, idx, dir1)
                  IN  IF r2.panic THEN r2
                      ELSE [r2 EXCEPT !.path = PathEmpty, !.steps = @ + 1,
                                      !.log = Append(@, "step")]

\* splay_finish as it would be if the pending one-step path were dropped
splay_finish_skip(t) ==
    IF t.panic \/ Len(t.path) = 0 THEN t
    ELSE IF Len(t.path) = 2 THEN [t EXCEPT !.panic = TRUE]
    ELSE t

\* splay_finish as it would be if the root reference were redirected to the
\* child instead of the child's contents being rotated into the root slot
splay_finish_redirect(t) ==
    IF t.panic \/ Len(t.path) = 0 THEN t
    ELSE IF Len(t.path) = 2 THEN [t EXCEPT !.panic = TRUE]
    ELSE IF t.root = IDX_NONE THEN [t EXCEPT !.panic = TRUE]
    ELSE LET lower == child(t.nodes, t.root, t.path[1])
         IN  IF lower = IDX_NONE THEN [t EXCEPT !.panic = TRUE]
             ELSE [t EXCEPT
                     !.nodes = set_child(
                                 set_child(t.nodes, t.root, t.path[1],
                                           child(t.nodes, lower, flip(t.path[1]))),
                                 lower, flip(t.path[1]), t.root),
                     !.root = lower,
                     !.rots = @ + 1, !.finish = @ + 1,
                     !.log = Append(@, "finish")]

\* Splay::splay_finish
splay_finish(t) ==
    IF t.panic \/ Len(t.path) = 0 THEN t
    ELSE IF Len(t.path) = 2 THEN [t EXCEPT !.panic = TRUE]
    ELSE IF t.root = IDX_NONE THEN [t EXCEPT !.panic = TRUE]
    ELSE LET r == rotate(t, t.root, t.path[1])
         IN  IF r.panic THEN r
             ELSE [r EXCEPT !.finish = @ + 1, !.log = Append(@, "finish")]

RECURSIVE visit_inner(_, _, _)
RECURSIVE visit_inner_helper(_, _, _, _)

\* Splay::visit_inner_helper
visit_inner_helper(t, node_idx, create, dir) ==
    LET c == child(t.nodes, node_idx, dir) IN
    IF c # IDX_NONE
    THEN LET r == visit_inner(t, c, create)
         IN  IF r.panic THEN r
             ELSE [r EXCEPT !.path = extend(r.path, dir),
                            !.ext2 = @ \/ Len(r.path) = 2]
    ELSE IF create.kind = "Create"
         THEN LET a == new_node(t, create.key, create.value[1])
                  node == NodesLen(a.nodes) - 1
              IN  [a EXCEPT !.nodes = set_child(a.nodes, node_idx, dir, node),
                            !.path = <<dir>>,
                            !.value = None]
         ELSE [t EXCEPT !.value = None]

\* Splay::visit_inner
visit_inner(t, node_idx, create) ==
    IF node_idx \notin DOMAIN t.nodes THEN [t EXCEPT !.panic = TRUE]
    ELSE LET key == create.key
             nk == t.nodes[node_idx].key
             r == IF key = nk
                  THEN [t EXCEPT !.path = PathEmpty, !.value = CreateValue(create)]
                  ELSE IF key < nk
                       THEN visit_inner_helper(t, node_idx, create, "Left")
                       ELSE visit_inner_helper(t, node_idx, create, "Right")
         IN  IF r.panic THEN r ELSE splay_step(r, node_idx)

\* visit as it would be if the node allocated for an empty tree were not
\* made the root
visit_no_root(ns, r, create) ==
    LET t == Call(ns, r) IN
    IF r # IDX_NONE
    THEN splay_finish(visit_inner(t, r, create))
    ELSE IF create.kind = "Lookup" THEN t
         ELSE new_node(t, create.key, create.value[1])

\* Splay::visit
visit(ns, r, create) ==
    LET t == Call(ns, r) IN
    IF r # IDX_NONE
    THEN splay_finish(visit_inner(t, r, create))
    ELSE IF create.kind = "Lookup" THEN t
         ELSE LET a == new_node(t, create.key, create.value[1])
              IN  [a EXCEPT !.root = NodesLen(a.nodes) - 1]

\* set as it would be if the value of an already-present key were not
\* overwritten
set_keep_old(ns, r, key, value) ==
    visit(ns, r, Create(key, value))

\* set as it would be if updating an already-present key pushed a fresh node
\* instead of overwriting the value in place
set_push_on_update(ns, r, key, value) ==
    LET t == visit(ns, r, Create(key, value)) IN
    IF t.panic \/ t.value = None THEN t
    ELSE new_node(t, key, t.value[1])

\* Splay::set, as a function of the tree: the call record after the call
set(ns, r, key, value) ==
    LET t == visit(ns, r, Create(key, value)) IN
    IF t.panic \/ t.value = None THEN t
    ELSE IF t.root = IDX_NONE \/ t.root \notin DOMAIN t.nodes
         THEN [t EXCEPT !.panic = TRUE]
         ELSE [t EXCEPT !.nodes[t.root].value = t.value[1]]

\* get's result as it would be if the root's key were not compared with key
get_result_any_key(t, key) ==
    IF t.root = IDX_NONE THEN None
    ELSE Some(t.nodes[t.root].value)

\* Splay::get, the Option<&V> it returns for the tree left by visit
get_result(t, key) ==
    IF t.root = IDX_NONE THEN None
    ELSE IF t.nodes[t.root].key = key
         THEN Some(t.nodes[t.root].value)
         ELSE None

\* Splay::get, as a function of the tree: the call record after the call,
\* its value field holding the returned Option
get(ns, r, key) ==
    LET t == visit(ns, r, Lookup(key)) IN
    IF t.panic THEN t
    ELSE [t EXCEPT !.value = get_result(t, key)]

\* ------------------------------------------------------------------ depth
RECURSIVE node_depth(_, _, _)
\* Splay::node_depth; fuel bounds the descent (the source recurses without a
\* bound, so running out of fuel stands for its stack running out)
node_depth(ns, idx, fuel) ==
    IF idx = IDX_NONE \/ fuel = 0 THEN 0
    ELSE LET l == node_depth(ns, ns[idx].left, fuel - 1)
             r == node_depth(ns, ns[idx].right, fuel - 1)
         IN  1 + (IF l >= r THEN l ELSE r)

\* Splay::depth
depth(ns, r) == node_depth(ns, r, NodesLen(ns) + 1)

\* -------------------------------------------------------------- SplayIter
RECURSIVE towards_min(_, _, _)
\* SplayIter::towards_min: push (i, false) for i = idx, its left child, ...
towards_min(ns, path, oidx) ==
    IF oidx = IDX_NONE THEN path
    ELSE towards_min(ns, Append(path, <<oidx, FALSE>>), ns[oidx].left)

\* upwards as it would be if entries marked visited were never popped
upwards_no_pop(path) == path

RECURSIVE upwards(_)
\* SplayIter::upwards: pop while the top entry is marked visited
upwards(path) ==
    IF Len(path) = 0 THEN path
    ELSE IF ~path[Len(path)][2] THEN path
    ELSE upwards(SubSeq(path, 1, Len(path) - 1))

\* SplayIter::new
iter_new(ns, r) ==
    IF r # IDX_NONE THEN towards_min(ns, <<>>, r) ELSE <<>>

\* next as it would be if it never descended into a right subtree
iter_next_path_skip_right(ns, path) ==
    LET top == path[Len(path)]
        marked == [path EXCEPT ![Len(path)] = <<top[1], TRUE>>]
    IN  upwards(marked)

\* Iterator::next on a non-empty path: the new path
iter_next_path(ns, path) ==
    LET top == path[Len(path)]
        node == ns[top[1]]
        marked == [path EXCEPT ![Len(path)] = <<top[1], TRUE>>]
    IN  IF ~top[2] /\ node.right # IDX_NONE
        THEN towards_min(ns, marked, node.right)
        ELSE upwards(marked)

\* Iterator::next on a non-empty path: the item returned
iter_next_item(ns, path) ==
    LET node == ns[path[Len(path)][1]]
    IN  <<node.key, node.value>>

\* ------------------------------------------------------------------ state
\* `again` compares a get / set call with the call before it: 0 when that was
\* another operation or another key, 1 when it was the same operation on the
\* same key (and, for set, the same value), 2 for set with another value.
NoCall == [op |-> "new", key |-> 0, val |-> 0, result |-> None,
           steps |-> 0, finish |-> 0, rots |-> 0, allocs |-> 0, again |-> 0,
           log |-> <<>>, ext2 |-> FALSE]

\* Splay::new
Init ==
    /\ root = IDX_NONE
    /\ nodes = EmptyNodes
    /\ panicked = FALSE
    /\ map = [k \in Keys |-> None]
    /\ last = NoCall
    /\ itState = "none"
    /\ itPath = <<>>
    /\ itOut = <<>>

\* tree.get(k), compared with map.get(&k) as in test_quickcheck
Get(k) ==
    /\ ~panicked
    /\ itState = "none"
    /\ \E t \in {get(nodes, root, k)} :
        /\ root' = t.root
        /\ nodes' = t.nodes
        /\ panicked' = t.panic
        /\ last' = [op |-> "get", key |-> k, val |-> 0, result |-> t.value,
                    steps |-> t.steps, finish |-> t.finish, rots |-> t.rots,
                    allocs |-> t.allocs,
                    again |-> IF last.op = "get" /\ last.key = k THEN 1 ELSE 0,
                    log |-> t.log, ext2 |-> t.ext2]
    /\ UNCHANGED <<map, itState, itPath, itOut>>

\* tree.set(k, v); map.insert(k, v) as in test_quickcheck.  The values fed
\* in: every key can be set to 1, and to 2 while no other key holds 2, so
\* that any key's value can differ from all the others'.
Set(k, v) ==
    /\ ~panicked
    /\ itState = "none"
    /\ HasKey(nodes, k) \/ NodesLen(nodes) < MaxNodes
    /\ v = 1 \/ \A k2 \in Keys \ {k} : map[k2] # Some(2)
    /\ \E t \in {set(nodes, root, k, v)} :
        /\ root' = t.root
        /\ nodes' = t.nodes
        /\ panicked' = t.panic
        /\ last' = [op |-> "set", key |-> k, val |-> v, result |-> None,
                    steps |-> t.steps, finish |-> t.finish, rots |-> t.rots,
                    allocs |-> t.allocs,
                    again |-> IF last.op = "set" /\ last.key = k
                              THEN (IF last.val = v THEN 1 ELSE 2)
                              ELSE 0,
                    log |-> t.log, ext2 |-> t.ext2]
    /\ map' = [map EXCEPT ![k] = Some(v)]
    /\ UNCHANGED <<itState, itPath, itOut>>

\* tree.iter(): the iterator borrows the tree until it is dropped
Iter ==
    /\ ~panicked
    /\ itState = "none"
    /\ itState' = "active"
    /\ itPath' = iter_new(nodes, root)
    /\ itOut' = <<>>
    /\ last' = [NoCall EXCEPT !.op = "iter"]
    /\ UNCHANGED <<root, nodes, panicked, map>>

\* SplayIter::next
IterNext ==
    /\ ~panicked
    /\ itState \in {"active", "ended"}
    /\ IF Len(itPath) = 0
       THEN /\ itState' = "ended"
            /\ UNCHANGED <<itPath, itOut>>
            /\ last' = [NoCall EXCEPT !.op = "next"]
       ELSE /\ itState' = itState
            /\ itPath' = iter_next_path(nodes, itPath)
            /\ itOut' = Append(itOut, iter_next_item(nodes, itPath))
            /\ last' = [NoCall EXCEPT !.op = "next",
                                      !.result = Some(iter_next_item(nodes, itPath))]
    /\ UNCHANGED <<root, nodes, panicked, map>>

\* the SplayIter goes out of scope, ending its borrow of the tree
IterDrop ==
    /\ itState \in {"active", "ended"}
    /\ itState' = "none"
    /\ itPath' = <<>>
    /\ itOut' = <<>>
    /\ last' = [NoCall EXCEPT !.op = "drop"]
    /\ UNCHANGED <<root, nodes, panicked, map>>

\* tree.depth(), as in depth_test
Depth ==
    /\ ~panicked
    /\ itState = "none"
    /\ last' = [NoCall EXCEPT !.op = "depth", !.result = Some(depth(nodes, root))]
    /\ UNCHANGED <<root, nodes, panicked, map, itState, itPath, itOut>>

Next ==
    \/ \E k \in Keys : Get(k)
    \/ \E k \in Keys, v \in Values : Set(k, v)
    \/ Depth
    \/ Iter
    \/ IterNext
    \/ IterDrop

Spec == Init /\ [][Next]_vars

\* ======================================================================
\* Observations of the tree used by the properties
\* ======================================================================

\* the arena indices of the subtree hanging off child reference oi; fuel
\* bounds the descent so the definition is total on any link structure
RECURSIVE SubtreeIdx(_, _, _)
SubtreeIdx(ns, oi, fuel) ==
    IF oi = IDX_NONE \/ fuel = 0 \/ oi \notin DOMAIN ns THEN {}
    ELSE {oi} \cup SubtreeIdx(ns, ns[oi].left, fuel - 1)
              \cup SubtreeIdx(ns, ns[oi].right, fuel - 1)

Subtree(ns, oi) == SubtreeIdx(ns, oi, NodesLen(ns))

BSTOrdered(ns) ==
    \A i \in DOMAIN ns :
        /\ \A j \in Subtree(ns, ns[i].left) : ns[j].key < ns[i].key
        /\ \A j \in Subtree(ns, ns[i].right) : ns[j].key > ns[i].key

\* the key of the last node on the search path for k below oi (oi present)
RECURSIVE LastVisitedKey(_, _, _, _)
LastVisitedKey(ns, i, k, fuel) ==
    LET nk == ns[i].key
        c == IF k < nk THEN ns[i].left ELSE ns[i].right
    IN  IF k = nk \/ c = IDX_NONE \/ fuel = 0 THEN nk
        ELSE LastVisitedKey(ns, c, k, fuel - 1)

\* the values stored under key k, over all arena slots
StoredValues(ns, k) == {ns[i].value : i \in {j \in DOMAIN ns : ns[j].key = k}}

\* the number of arena slots holding key k
SlotsOf(ns, k) == Cardinality({i \in DOMAIN ns : ns[i].key = k})

\* the entries of the reference map in ascending key order
RECURSIVE SortedEntriesFrom(_, _)
SortedEntriesFrom(m, k) ==
    IF k > MaxKey THEN <<>>
    ELSE (IF m[k] = None THEN <<>> ELSE << <<k, m[k][1]>> >>)
         \o SortedEntriesFrom(m, k + 1)

SortedEntries(m) == SortedEntriesFrom(m, 1)

StrictlyAscending(out) ==
    \A a, b \in 1..Len(out) : a < b => out[a][1] < out[b][1]

IsCall == last'.op \in {"get", "set"}

\* ======================================================================
\* Claims
\* ======================================================================

\* C1: differential equivalence - every get(k) on the tree returns what the
\* reference map fed the same set operations returns for k: the most
\* recently set value, or absent if k was never set.
C1_DifferentialEquivalence ==
    last.op = "get" => last.result = map[last.key]

\* C1 witness: a get that hit a key whose value had been overwritten to 2,
\* after two-step splaying, while another key is absent
C1_Witness ==
    /\ last.op = "get" /\ last.result = Some(2) /\ last.steps >= 1
    /\ \E k \in Keys : map[k] = None

\* C2: binary-search-tree ordering holds in every reachable state: for
\* every node, the keys of its left subtree are strictly smaller and the
\* keys of its right subtree strictly greater than its key.
C2_BSTOrdering == BSTOrdered(nodes)

\* C2 witness: a four-node tree just restructured by a two-rotation step
\* followed by a finishing rotation, whose root has both children
C2_Witness ==
    /\ NodesLen(nodes) = 4 /\ last.steps >= 1 /\ last.finish = 1
    /\ nodes[root].left # IDX_NONE /\ nodes[root].right # IDX_NONE

\* C3: root-after-access - after every set(k, v) the root holds key k with
\* value v, and after every get(k) on a tree that contained k the root
\* holds key k.
C3_RootAfterAccess ==
    [][ /\ last'.op = "set" =>
            /\ root' # IDX_NONE
            /\ nodes'[root'].key = last'.key
            /\ nodes'[root'].value = last'.val
        /\ (last'.op = "get" /\ HasKey(nodes, last'.key)) =>
            /\ root' # IDX_NONE
            /\ nodes'[root'].key = last'.key ]_vars

\* C3 witness: a get brought a key from three levels down to the root
C3_Witness ==
    /\ last.op = "get" /\ last.result # None
    /\ last.steps = 1 /\ last.finish = 1
    /\ nodes[root].key = last.key

\* C4: get on a missing key of a non-empty tree returns absent and leaves at
\* the root the key of the last node on the search path for k, as
\* determined on the tree before the call.
C4_GetMissing ==
    [][ (last'.op = "get" /\ root # IDX_NONE /\ ~HasKey(nodes, last'.key)) =>
            /\ last'.result = None
            /\ root' # IDX_NONE
            /\ nodes'[root'].key =
                   LastVisitedKey(nodes, root, last'.key, NodesLen(nodes)) ]_vars

\* C4 witness: a missed get whose last visited node was moved up by a
\* two-rotation step
C4_Witness ==
    /\ last.op = "get" /\ last.result = None /\ root # IDX_NONE
    /\ ~HasKey(nodes, last.key) /\ last.steps >= 1

\* C5: ordered iteration - a completed iter() has yielded the keys in
\* strictly ascending order, exactly the distinct keys ever set, each once,
\* each with its most recently set value.
C5_OrderedIteration ==
    /\ itState # "none" => StrictlyAscending(itOut)
    /\ itState = "ended" => itOut = SortedEntries(map)

\* C5 witness: a completed iteration over a four-node tree whose root has
\* both children, one value being an overwritten one
C5_Witness ==
    /\ itState = "ended" /\ Len(itOut) = 4
    /\ nodes[root].left # IDX_NONE /\ nodes[root].right # IDX_NONE
    /\ \E a \in 1..4 : itOut[a][2] = 2

\* the number of slots of ns whose key differs in ns2
MovedSlots(ns, ns2) == Cardinality({i \in DOMAIN ns : ns2[i].key # ns[i].key})

\* C6 (as claimed): index stability - across every get and set an arena
\* index refers to the same key; rotations never relocate node contents
\* between arena slots.
C6_Original_IndexStability ==
    [][ IsCall => \A i \in DOMAIN nodes : nodes'[i].key = nodes[i].key ]_vars

\* C6 (amended): an arena index keeps its key only across calls that rotate
\* nothing; each rotation swaps the contents of its two slots, so a call with
\* r rotations changes the key of at most 2r slots; contents are only
\* moved: every key stays in exactly one slot, no key leaves the arena, and
\* a get leaves every key with its value.
C6_ContentsSwapped ==
    [][ IsCall =>
            /\ last'.rots = 0 =>
                   \A i \in DOMAIN nodes : nodes'[i].key = nodes[i].key
            /\ MovedSlots(nodes, nodes') <= 2 * last'.rots
            /\ \A k \in Keys :
                   /\ SlotsOf(nodes', k) <= 1
                   /\ SlotsOf(nodes', k) >= SlotsOf(nodes, k)
                   /\ last'.op = "get" =>
                          StoredValues(nodes', k) = StoredValues(nodes, k) ]_vars

\* C6 witness: a get whose rotations left slot 0 holding another key than
\* the one it was allocated with (the first key set stays in slot 0 until a
\* rotation moves it), on a four-node arena
C6_Witness ==
    /\ last.op = "get" /\ last.rots = 3 /\ NodesLen(nodes) = 4
    /\ \E i \in DOMAIN nodes : i # root /\ nodes[i].left # IDX_NONE

\* C7: idempotent update - set(k, v1) followed by set(k, v2) leaves exactly
\* one entry for k, with value v2, get(k) then returns v2, and the values of
\* all other keys are unchanged (by either set).
C7_IdempotentUpdate ==
    [][ /\ (last'.op = "set" /\ last'.again # 0) =>
            /\ SlotsOf(nodes', last'.key) = 1
            /\ StoredValues(nodes', last'.key) = {last'.val}
            /\ get(nodes', root', last'.key).value = Some(last'.val)
        /\ last'.op = "set" =>
            \A k2 \in Keys \ {last'.key} :
                StoredValues(nodes', k2) = StoredValues(nodes, k2) ]_vars

\* C7 witness: the second of two consecutive sets of one key with different
\* values, in a tree holding other keys as well
C7_Witness ==
    /\ last.op = "set" /\ last.again = 2 /\ NodesLen(nodes) >= 3
    /\ nodes[root].value = last.val

\* C8: one node per distinct key - the arena length equals the number of
\* distinct keys set so far; a set of a new key appends exactly one node, a
\* get and a set of a present key append none, and the length never
\* decreases.
C8_OneNodePerKey ==
    /\ [](NodesLen(nodes) = Cardinality({k \in Keys : map[k] # None}))
    /\ [][ /\ NodesLen(nodes') >= NodesLen(nodes)
           /\ (last'.op = "set" /\ ~HasKey(nodes, last'.key)) =>
                  /\ NodesLen(nodes') = NodesLen(nodes) + 1
                  /\ last'.allocs = 1
           /\ (last'.op = "set" /\ HasKey(nodes, last'.key)) =>
                  /\ NodesLen(nodes') = NodesLen(nodes)
                  /\ last'.allocs = 0
           /\ last'.op = "get" =>
                  /\ NodesLen(nodes') = NodesLen(nodes)
                  /\ last'.allocs = 0 ]_vars

\* C8 witness: a set of an already-present key, found two levels down, on a
\* three-node arena
C8_Witness ==
    /\ last.op = "set" /\ last.allocs = 0 /\ last.steps = 1
    /\ NodesLen(nodes) = 3

\* C9 (as claimed): for every key k, present or not, two consecutive get(k)
\* calls on a non-empty tree return the same result and leave the same key
\* at the root.
C9_Original_RepeatedGet ==
    [][ (last.op = "get" /\ last'.op = "get" /\ last'.key = last.key
         /\ root # IDX_NONE) =>
            /\ last'.result = last.result
            /\ nodes'[root'].key = nodes[root].key ]_vars

\* C9 (amended): two consecutive get(k) calls on a non-empty tree return the
\* same result, and when k is present the key held at the root after the
\* second call is the same as after the first.
C9_RepeatedGet ==
    [][ (last.op = "get" /\ last'.op = "get" /\ last'.key = last.key
         /\ root # IDX_NONE) =>
            /\ last'.result = last.result
            /\ HasKey(nodes, last.key) =>
                   nodes'[root'].key = nodes[root].key ]_vars

\* C9 witness: the second of two consecutive gets of a present key on a
\* four-node tree
C9_Witness ==
    /\ last.op = "get" /\ last.again = 1 /\ last.result # None
    /\ NodesLen(nodes) = 4

\* C10 (as claimed): on a tree holding exactly one node every get and every
\* set, for any key, performs zero rotations.
C10_Original_SingleNode ==
    [][ (IsCall /\ NodesLen(nodes) = 1) => last'.rots = 0 ]_vars

\* C10 (amended): on a tree holding exactly one node every get, and every
\* set of the stored key, performs zero rotations; a set of a different key
\* performs exactly one rotation, the finishing one, and no two-rotation
\* step.
C10_SingleNode ==
    [][ (IsCall /\ NodesLen(nodes) = 1) =>
            IF last'.op = "get" \/ last'.key = nodes[root].key
            THEN last'.rots = 0
            ELSE last'.rots = 1 /\ last'.finish = 1 /\ last'.steps = 0 ]_vars

\* C10 witness: a set of a second key on a single-node tree has run
C10_Witness ==
    /\ last.op = "set" /\ last.allocs = 1 /\ NodesLen(nodes) = 2
    /\ last.rots = 1

\* C11: empty-tree behaviour - on a freshly constructed container get(k)
\* returns absent and leaves the tree empty (no root, empty arena), iter()
\* yields no items and depth() is 0; the first set(k, v) allocates a single
\* node with both children absent, makes it the root and rotates nothing.
C11_EmptyTree ==
    /\ [](NodesLen(nodes) = 0 =>
              /\ root = IDX_NONE
              /\ depth(nodes, root) = 0
              /\ itPath = <<>> /\ itOut = <<>>)
    /\ [][ NodesLen(nodes) = 0 =>
              /\ last'.op = "get" =>
                     /\ last'.result = None
                     /\ root' = IDX_NONE /\ nodes' = EmptyNodes
              /\ last'.op = "depth" => last'.result = Some(0)
              /\ last'.op = "iter" => itPath' = <<>>
              /\ last'.op = "next" =>
                     /\ last'.result = None
                     /\ itState' = "ended" /\ itOut' = <<>>
              /\ last'.op = "set" =>
                     /\ NodesLen(nodes') = 1 /\ last'.allocs = 1
                     /\ root' = 0
                     /\ nodes'[0] = [key |-> last'.key, value |-> last'.val,
                                     left |-> IDX_NONE, right |-> IDX_NONE]
                     /\ last'.rots = 0 ]_vars

\* C11 witness: the first set on an empty tree has just made its node the
\* root
C11_Witness ==
    /\ last.op = "set" /\ last.allocs = 1 /\ NodesLen(nodes) = 1
    /\ root = 0 /\ last.rots = 0

\* the call about to complete targets the key held two levels below the
\* root, reached from the root by d1 and then d2
TargetIsGrandchild(d1, d2) ==
    /\ IsCall /\ root # IDX_NONE
    /\ child(nodes, root, d1) # IDX_NONE
    /\ child(nodes, child(nodes, root, d1), d2) # IDX_NONE
    /\ nodes[child(nodes, child(nodes, root, d1), d2)].key = last'.key

\* the tree ns rooted at r has key x on top, key p as x's d child and key g
\* as p's d child
ChainShape(ns, r, d, x, p, g) ==
    /\ r # IDX_NONE /\ ns[r].key = x
    /\ child(ns, r, d) # IDX_NONE
    /\ ns[child(ns, r, d)].key = p
    /\ child(ns, child(ns, r, d), d) # IDX_NONE
    /\ ns[child(ns, child(ns, r, d), d)].key = g

\* C13: classical two-step splay step - when the target x lies two levels
\* below g, the step at g moves x into g's position, and when both steps go
\* the same way (zig-zig: x under p under g) the result is x on top, p the
\* child of x, g the child of p - not x on top, g under x, p under g.
C13_ClassicalZigZig ==
    [][ \A d1, d2 \in Dirs :
          TargetIsGrandchild(d1, d2) =>
            /\ root' # IDX_NONE /\ nodes'[root'].key = last'.key
            /\ d1 = d2 =>
                 ChainShape(nodes', root', flip(d1), last'.key,
                            nodes[child(nodes, root, d1)].key,
                            nodes[root].key) ]_vars

\* the (key, value) pairs of the subtree hanging off oi, left to right
RECURSIVE InOrderFrom(_, _, _)
InOrderFrom(ns, oi, fuel) ==
    IF oi = IDX_NONE \/ fuel = 0 \/ oi \notin DOMAIN ns THEN <<>>
    ELSE InOrderFrom(ns, ns[oi].left, fuel - 1)
         \o << <<ns[oi].key, ns[oi].value>> >>
         \o InOrderFrom(ns, ns[oi].right, fuel - 1)

InOrder(ns, r) == InOrderFrom(ns, r, NodesLen(ns))

\* what rotate(upper, dir) makes of the tree (ns, r), lower being upper's
\* dir child: ns2 is the arena after the rotation
RotationEffect(ns, r, upper, dir, ns2) ==
    LET lower == child(ns, upper, dir) IN
    \* lower's key heads the subtree, in the slot the parent refers to
    /\ ns2[upper].key = ns[lower].key /\ ns2[upper].value = ns[lower].value
    \* upper's key is its flip(dir) child
    /\ child(ns2, upper, flip(dir)) = lower
    /\ ns2[lower].key = ns[upper].key /\ ns2[lower].value = ns[upper].value
    \* upper's node takes lower's former flip(dir) subtree as its dir child
    /\ child(ns2, lower, dir) = child(ns, lower, flip(dir))
    \* the other two subtrees stay attached where they were
    /\ child(ns2, lower, flip(dir)) = child(ns, upper, flip(dir))
    /\ child(ns2, upper, dir) = child(ns, lower, dir)
    \* nothing outside the two nodes changes
    /\ \A i \in DOMAIN ns \ {upper, lower} : ns2[i] = ns[i]
    /\ DOMAIN ns2 = DOMAIN ns
    /\ InOrder(ns2, r) = InOrder(ns, r)

\* C14: rotation effect - for every node upper of a reachable tree whose dir
\* child lower is present, rotate(upper, dir) puts lower's key at the head of
\* that subtree with upper's key as its flip(dir) child, gives upper's node
\* lower's former flip(dir) subtree as its dir child, leaves the other two
\* subtrees attached, changes nothing outside the subtree (the root and the
\* parent's reference stay as they are) and keeps the in-order sequence of
\* (key, value) pairs of the whole tree.
C14_RotationEffect ==
    \A upper \in DOMAIN nodes, dir \in Dirs :
        child(nodes, upper, dir) # IDX_NONE =>
            LET t == rotate(Call(nodes, root), upper, dir) IN
            /\ ~t.panic /\ t.root = root /\ t.rots = 1
            /\ RotationEffect(nodes, root, upper, dir, t.nodes)

\* C14 witness: a tree produced by rotations in which a node below the root
\* has a child that itself has a flip-side subtree to hand over
C14_Witness ==
    /\ last.rots >= 1
    /\ \E upper \in DOMAIN nodes, dir \in Dirs :
          /\ upper # root
          /\ child(nodes, upper, dir) # IDX_NONE
          /\ child(nodes, child(nodes, upper, dir), flip(dir)) # IDX_NONE

\* the arena indices held on an iterator stack
PathIdx(path) == {path[a][1] : a \in 1..Len(path)}

C16_NoAbort ==
    /\ ~panicked
    /\ ~last.ext2

\* C16 witness: a set of a key found three levels down has gone through a
\* two-rotation step, the finishing rotation and the overwrite at the
\* unwrapped root
C16_Witness ==
    /\ last.op = "set" /\ last.allocs = 0
    /\ last.steps = 1 /\ last.finish = 1
    /\ ~panicked /\ nodes[root].value = last.val

\* the number of edges between node i and the target of a call for key k
\* below it: the node holding k, else the last node on the search path (get)
\* or the node about to be created under it (set)
RECURSIVE TargetDepth(_, _, _, _, _)
TargetDepth(ns, i, k, creating, fuel) ==
    LET nk == ns[i].key
        c == IF k < nk THEN ns[i].left ELSE ns[i].right
    IN  IF k = nk \/ fuel = 0 THEN 0
        ELSE IF c = IDX_NONE THEN (IF creating THEN 1 ELSE 0)
        ELSE 1 + TargetDepth(ns, c, k, creating, fuel - 1)

\* n two-rotation steps followed by f finishing rotations
Schedule(n, f) ==
    [a \in 1..(n + f) |-> IF a <= n THEN "step" ELSE "finish"]

\* C17: rotation schedule - a get or set whose target (matched node, newly
\* created node, or last node visited on a miss) lies d edges below the root
\* performs floor(d/2) two-rotation steps and, only if d is odd, exactly one
\* single rotation, applied after all the steps; when the target is already
\* the root nothing is rotated and the tree structure is unchanged.
C17_RotationSchedule ==
    [][ (IsCall /\ root # IDX_NONE) =>
          LET d == TargetDepth(nodes, root, last'.key, last'.op = "set",
                               NodesLen(nodes))
          IN  /\ last'.steps = d \div 2
              /\ last'.finish = d % 2
              /\ last'.rots = 2 * last'.steps + last'.finish
              /\ last'.log = Schedule(d \div 2, d % 2)
              /\ d = 0 =>
                    /\ root' = root
                    /\ DOMAIN nodes' = DOMAIN nodes
                    /\ \A i \in DOMAIN nodes :
                          /\ nodes'[i].key = nodes[i].key
                          /\ nodes'[i].left = nodes[i].left
                          /\ nodes'[i].right = nodes[i].right ]_vars

\* C17 witness: a set created its node three edges below the root and
\* brought it up by one two-rotation step followed by the finishing rotation
C17_Witness ==
    /\ last.op = "set" /\ last.allocs = 1 /\ NodesLen(nodes) = 4
    /\ last.log = <<"step", "finish">>
    /\ nodes[root].key = last.key

\* the (node, side) child slots of ns that refer to node i
ParentsOf(ns, i) ==
    {ps \in (DOMAIN ns) \X Dirs : child(ns, ps[1], ps[2]) = i}

\* C18: well-formed tree - the root is absent iff the arena is empty, every
\* present child reference is a valid arena index, and the child references
\* form a tree rooted at root that reaches every allocated node exactly once
\* (no cycle, no shared child, no self-reference, no orphan).
C18_WellFormed ==
    /\ root = IDX_NONE <=> NodesLen(nodes) = 0
    /\ root # IDX_NONE => root \in DOMAIN nodes
    /\ \A i \in DOMAIN nodes, dir \in Dirs :
          child(nodes, i, dir) # IDX_NONE =>
              /\ child(nodes, i, dir) \in DOMAIN nodes
              /\ child(nodes, i, dir) < NodesLen(nodes)
              /\ child(nodes, i, dir) # i
    /\ \A i \in DOMAIN nodes :
          Cardinality(ParentsOf(nodes, i)) = (IF i = root THEN 0 ELSE 1)
    /\ Subtree(nodes, root) = DOMAIN nodes

\* C18 witness: a four-node tree left by a call that rotated three times,
\* whose root has both children
C18_Witness ==
    /\ NodesLen(nodes) = 4 /\ last.rots = 3
    /\ nodes[root].left # IDX_NONE /\ nodes[root].right # IDX_NONE

\* C19: fixed root slot - the root reference is written only by the first
\* set on an empty tree; from then on root refers to arena index 0, and the
\* key splayed to the root is moved into that slot.
C19_FixedRootSlot ==
    /\ [](root \in {IDX_NONE, 0})
    /\ [][ /\ root' # root =>
                  /\ last'.op = "set"
                  /\ root = IDX_NONE /\ NodesLen(nodes) = 0
                  /\ root' = 0
           /\ (IsCall /\ (last'.op = "set" \/ HasKey(nodes, last'.key))) =>
                  nodes'[0].key = last'.key ]_vars

\* C19 witness: a get moved a key from three levels down into slot 0, which
\* is still the root
C19_Witness ==
    /\ last.op = "get" /\ last.result # None /\ last.rots = 3
    /\ root = 0 /\ nodes[0].key = last.key

====
